---------------------------- MODULE Spec2Model ----------------------------
(***************************************************************************)
(* Model of src/streamlit_app.py: the Streamlit script that asks a         *)
(* text-generation collaborator for four climate scenarios, validates and  *)
(* normalizes the decoded payload (generate_climate_scenarios), caches the *)
(* result in st.session_state.scenarios and derives two market sizes from  *)
(* it (update_plot).                                                       *)
(*                                                                         *)
(* Conventions of the model                                                *)
(*  - A Python list element is a record: Num(v) for a number v, Str for a  *)
(*    non-numeric element (a string).  Temperatures are whole degrees.     *)
(*  - A Python string used as a dictionary key is the sequence of its      *)
(*    words; "a in b" on strings is containment of a contiguous run of     *)
(*    words, compared exactly (so letter case matters, as in Python).      *)
(*  - An optional value is a sequence of length 0 (None) or 1.             *)
(*  - A call that may raise returns a record [exc, arg, val]: exc = "none"  *)
(*    means that it returned val, anything else is the exception raised.   *)
(***************************************************************************)
EXTENDS Integers, Sequences, FiniteSets, TLC

VARIABLES
    api_key,        \* os.getenv('OPENAI_API_KEY') is set (line 10)
    session_state,  \* st.session_state: the keys present and their values
    runs,           \* number of script reruns so far (capped by MaxReruns)
    button,         \* st.button("Generate Scenarios") in the last rerun
    pass_started,   \* the last rerun called generate_climate_scenarios
    returned,       \* what that call returned: <<>> (None or no call) or <<set>>
    errors,         \* the st.error reports of the last rerun, in order
    plotted,        \* update_plot ran in the last rerun
    markets,        \* <<>> or <<[emissions_removal_market, climate_interventions_market]>>
    call            \* a direct call of one of the pure functions and its outcome

vars == <<api_key, session_state, runs, button, pass_started, returned,
          errors, plotted, markets, call>>

-----------------------------------------------------------------------------
(* Bounds of the model *)

\* Number of reruns of the script that are explored.
MaxReruns == 2

\* Longest series and largest target length given to a direct call of normalize_data.
MaxLen == 3

-----------------------------------------------------------------------------
(* Program constants *)

\* normalize_data(data, target_length=100)
target_length_default == 100

\* The cap of min(max(0, value), 6)
CapTemp == 6

\* The floor of min(max(0, value), 6), and of max(0, np.trapz(...) ...)
Floor == 0

\* len(scenarios) != 4
NumScenarios == 4

\* years = np.linspace(0, 100, 100): the end point and the number of points
YearsEnd == 100
YearsNum == 100

None == <<>>
Some(x) == <<x>>

Min(a, b) == IF a <= b THEN a ELSE b
Max(a, b) == IF a >= b THEN a ELSE b

Num(v) == [num |-> TRUE, v |-> v]
Str == [num |-> FALSE, v |-> 0]

\* arg is what the exception's message names (a scenario name), if anything.
Returned(v) == [exc |-> "none", arg |-> <<>>, val |-> v]
Raised(e) == [exc |-> e, arg |-> <<>>, val |-> <<>>]
RaisedAbout(e, name) == [exc |-> e, arg |-> name, val |-> <<>>]

-----------------------------------------------------------------------------
(* normalize_data, lines 19-23 *)

\* data[-1] of the padding branch raises IndexError on the empty list.
normalize_data(data, target_length) ==
    IF Len(data) < target_length
    THEN IF Len(data) = 0
         THEN Raised("IndexError")
         ELSE Returned(data \o [i \in 1..(target_length - Len(data)) |-> data[Len(data)]])
    ELSE Returned(SubSeq(data, 1, target_length))

-----------------------------------------------------------------------------
(* Scenario names and key matching, lines 64-69 *)

correct_order ==
    << <<"Business", "as", "Usual">>,
       <<"Cut", "Emissions", "Aggressively">>,
       <<"Emissions", "Removal">>,
       <<"Climate", "Interventions">> >>

\* A dictionary key: a string (its words) or a non-string such as an int.
StrKey(words) == [isstr |-> TRUE, words |-> words]
IntKey == [isstr |-> FALSE, words |-> <<>>]

\* Python's "correct_name in key" for two strings.
Contains(key, correct_name) ==
    \E i \in 0..(Len(key) - Len(correct_name)) :
        SubSeq(key, i + 1, i + Len(correct_name)) = correct_name

\* next((key for key in scenarios.keys() if correct_name in key), None):
\* the index of the first key, in the dictionary's order, that contains the
\* name; 0 for None.  "in" raises TypeError on a key that is not a string,
\* when the scan reaches it.
matched_key(items, correct_name) ==
    LET stops == {i \in 1..Len(items) :
                     \/ ~items[i].key.isstr
                     \/ Contains(items[i].key.words, correct_name)}
    IN  IF stops = {} THEN Returned(0)
        ELSE LET first == CHOOSE i \in stops : \A j \in stops : i <= j
             IN  IF items[first].key.isstr THEN Returned(first)
                                           ELSE Raised("TypeError")

-----------------------------------------------------------------------------
(* generate_climate_scenarios, lines 25-89 *)

\* A dictionary value: a list of elements, or something that is not a list.
ListValue(elems) == [islist |-> TRUE, elems |-> elems]
NonList == [islist |-> FALSE, elems |-> <<>>]

\* Mutant of clamp: the cap at 6 is forgotten.
clamp_no_cap(normalized_data) ==
    IF \E i \in 1..Len(normalized_data) : ~normalized_data[i].num
    THEN Raised("TypeError")
    ELSE Returned([i \in 1..Len(normalized_data) |-> Max(Floor, normalized_data[i].v)])

\* [min(max(0, value), 6) for value in normalized_data], line 77: max() and
\* min() raise TypeError when value is not a number.
clamp(normalized_data) ==
    IF \E i \in 1..Len(normalized_data) : ~normalized_data[i].num
    THEN Raised("TypeError")
    ELSE Returned([i \in 1..Len(normalized_data) |->
                      Min(Max(Floor, normalized_data[i].v), CapTemp)])

\* One iteration of the loop of lines 66-78, for correct_order[n].
normalized_for(items, n) ==
    LET m == matched_key(items, correct_order[n])
    IN  IF m.exc # "none" THEN m
        ELSE IF m.val = 0
        THEN RaisedAbout("ValueError: Missing scenario", correct_order[n])
        ELSE LET data == items[m.val].value
             IN  IF ~data.islist
                 THEN RaisedAbout("ValueError: Invalid data for scenario",
                                  items[m.val].key.words)
                 ELSE LET nd == normalize_data(data.elems, target_length_default)
                      IN  IF nd.exc # "none" THEN nd ELSE clamp(nd.val)

\* Mutant of order_violated: equal last values pass ("<" for "<=").
order_violated_strict(normalized_scenarios, i) ==
    LET a == normalized_scenarios[i]
        b == normalized_scenarios[i + 1]
    IN  a[Len(a)] < b[Len(b)]

\* The comparison of line 82 for the adjacent pair (i, i+1), 1-based.
order_violated(normalized_scenarios, i) ==
    LET a == normalized_scenarios[i]
        b == normalized_scenarios[i + 1]
    IN  a[Len(a)] <= b[Len(b)]

\* Mutant of check_order: the order is not checked.
check_order_skipped(normalized_scenarios) == Returned(normalized_scenarios)

\* Mutant of check_order: the loop stops one pair early.
check_order_short(normalized_scenarios) ==
    LET bad == {i \in 1..(Len(correct_order) - 2) :
                   normalized_scenarios[i][Len(normalized_scenarios[i])]
                       <= normalized_scenarios[i + 1][Len(normalized_scenarios[i + 1])]}
    IN  IF bad = {} THEN Returned(normalized_scenarios)
        ELSE RaisedAbout("ValueError: should show more warming",
                         correct_order[CHOOSE i \in bad : \A j \in bad : i <= j])

\* Lines 80-83: the first adjacent pair out of order raises ValueError.
check_order(normalized_scenarios) ==
    LET bad == {i \in 1..(Len(correct_order) - 1) :
                   order_violated(normalized_scenarios, i)}
    IN  IF bad = {} THEN Returned(normalized_scenarios)
        ELSE RaisedAbout("ValueError: should show more warming",
                         correct_order[CHOOSE i \in bad : \A j \in bad : i <= j])

\* The loop of lines 66-78 from correct_order[n] on, with the series
\* normalized so far; r is the outcome of the iteration for correct_order[n].
RECURSIVE normalize_from(_, _, _)
normalize_step(r, items, n, normalized_scenarios) ==
    IF r.exc # "none" THEN r
    ELSE normalize_from(items, n + 1, Append(normalized_scenarios, r.val))

normalize_from(items, n, normalized_scenarios) ==
    IF n > Len(correct_order) THEN Returned(normalized_scenarios)
    ELSE normalize_step(normalized_for(items, n), items, n, normalized_scenarios)

\* Lines 80-85 on the outcome of the loop.
order_step(r) == IF r.exc # "none" THEN r ELSE check_order(r.val)

\* The body of the try block, lines 59-85, on the text of the response.
\* The set is the sequence of the four series in the order of correct_order.
parse_and_validate(response) ==
    IF response.kind = "unparsable" THEN Raised("SyntaxError")
    ELSE IF response.kind # "dict" \/ Len(response.items) # NumScenarios
    THEN Raised("ValueError: Invalid response format")
    ELSE order_step(normalize_from(response.items, 1, <<>>))

\* The local variable matched_key of each iteration of the loop (0 for None
\* or for a scan that raised), for a dictionary response.
matched_keys(response) ==
    [n \in 1..Len(correct_order) |-> matched_key(response.items, correct_order[n]).val]

\* generate_climate_scenarios: the request of line 50 is outside the try
\* block, so its failure propagates; everything after it is caught by
\* "except Exception" (lines 86-89), reported with st.error and turned into
\* None.  val is [ret, errors]: the value returned and the reports made.
generate_climate_scenarios(response) ==
    IF response.kind = "api_error" THEN Raised("APIError")
    ELSE LET r == parse_and_validate(response)
         IN  IF r.exc = "none"
             THEN Returned([ret |-> Some(r.val), errors |-> <<>>])
             ELSE Returned([ret |-> None,
                            errors |-> << [exc |-> r.exc, arg |-> r.arg] >>])

-----------------------------------------------------------------------------
(* update_plot, lines 91-169: the market sizes of lines 147-159.  The plot  *)
(* itself (lines 92-145) is rendering and leaves no state behind.           *)

\* Sum of f[i] for i in lo..hi.
RECURSIVE SumOver(_, _, _)
SumOver(f, lo, hi) == IF lo > hi THEN 0 ELSE f[hi] + SumOver(f, lo, hi - 1)

\* Mutant of years_scaled: unit spacing, years = np.arange(100).
years_unit_spacing == [i \in 1..YearsNum |-> (YearsNum - 1) * (i - 1)]

\* years = np.linspace(0, 100, 100), line 93: the point of index i (from 0)
\* is 100 * i / 99.  The model keeps years * (YearsNum - 1), an integer.
years_scaled == [i \in 1..YearsNum |-> YearsEnd * (i - 1)]

\* np.trapz(y, x) = sum of (x[i+1] - x[i]) * (y[i+1] + y[i]) / 2.  With x
\* scaled as above the sum without the division is 2 * (YearsNum - 1) times
\* np.trapz(y, years).
trapz_scaled(y, x) ==
    SumOver([i \in 1..(Len(y) - 1) |-> (x[i + 1] - x[i]) * (y[i + 1] + y[i])],
            1, Len(y) - 1)

\* Mutant of market_size: the max(0, ...) is forgotten.
market_size_unclamped(upper, lower, co2_price) ==
    trapz_scaled([i \in 1..Len(upper) |-> upper[i] - lower[i]], years_scaled) * co2_price

\* What one unit of market_size stands for: 1e9 / MarketScale dollars.
MarketScale == 2 * (YearsNum - 1)

\* max(0, np.trapz(np.array(upper) - np.array(lower), years) * co2_price * 1e9),
\* lines 149-153 and 155-159, in units of 1e9 / MarketScale dollars.  Both
\* series have the length of years wherever this is evaluated.
market_size(upper, lower, co2_price) ==
    Max(Floor,
        trapz_scaled([i \in 1..Len(upper) |-> upper[i] - lower[i]], years_scaled)
            * co2_price)

\* The two market sizes of update_plot; scenarios is in the order of
\* correct_order, so 2, 3, 4 are 'Cut Emissions Aggressively',
\* 'Emissions Removal' and 'Climate Interventions'.
update_plot(scenarios, co2_price) ==
    [emissions_removal_market |-> market_size(scenarios[2], scenarios[3], co2_price),
     climate_interventions_market |-> market_size(scenarios[3], scenarios[4], co2_price)]

-----------------------------------------------------------------------------
(* The inputs: what the text-generation collaborator answers *)

kBAU == StrKey(<<"Business", "as", "Usual">>)
kBAUlong == StrKey(<<"Business", "as", "Usual", "(BAU)">>)
kBAUlower == StrKey(<<"business", "as", "usual", "(BAU)">>)
kCEA == StrKey(<<"Cut", "Emissions", "Aggressively">>)
kCEAupper == StrKey(<<"CUT", "EMISSIONS", "AGGRESSIVELY">>)
kER == StrKey(<<"Emissions", "Removal">>)
kCI == StrKey(<<"Climate", "Interventions">>)
kCInumbered == StrKey(<<"4.", "Climate", "Interventions">>)
kERCI == StrKey(<<"Emissions", "Removal", "and", "Climate", "Interventions">>)
kBAUCI == StrKey(<<"Business", "as", "Usual", "vs", "Climate", "Interventions">>)
kOther == StrKey(<<"Notes">>)

\* The keys of a response, in the dictionary's order.
KeyLayouts ==
    { <<kBAU, kCEA, kER, kCI>>,
      <<kBAUlong, kCEA, kER, kCInumbered>>,
      <<kCI, kER, kCEA, kBAU>>,
      <<kBAUlower, kCEA, kER, kCI>>,
      <<kBAU, kCEAupper, kER, kCI>>,
      <<kBAU, kCEA, kERCI, kCI>>,
      <<kBAU, kCEA, kER, kERCI>>,
      <<kBAU, kCEA, kERCI, kOther>>,
      <<kBAUCI, kCEA, kER, kOther>>,
      <<kBAU, kCEA, kER, kOther>>,
      <<IntKey, kBAU, kCEA, kER>>,
      <<kBAU, kCEA, kER, IntKey>>,
      <<kBAU, kCEA, kER>>,
      <<kBAU, kCEA, kER, kCI, kOther>> }

\* The last values of the lists of a response, by position in the dictionary.
LastProfiles ==
    { <<6, 4, 2, 1>>, <<5, 5, 3, 1>>, <<3, 4, 2, 1>>, <<7, 4, 2, -1>>,
      <<7, 8, 2, 1>>, <<6, 4, 2, 2>>, <<1, 2, 4, 6>>, <<6, 2, 4, 1>>,
      <<6, 4, 1, 6>> }

\* The values before the last one.
BodyProfiles ==
    { <<0, 0, 0, 0>>, <<3, 2, 1, 0>>, <<1, 0, 6, 0>>, <<-2, 9, 3, 3>> }

\* What is wrong with the value at position slot (slot 0: nothing).
\*   len: the length of the list; bad: the position of a non-numeric
\*   element (0: none); nonlist: the value is not a list.
Defect(slot, len, bad, nonlist) == [slot |-> slot, len |-> len, bad |-> bad, nonlist |-> nonlist]
NoDefect == Defect(0, target_length_default, 0, FALSE)
Defects ==
    {NoDefect}
    \cup {Defect(j, target_length_default, 0, TRUE) : j \in 1..NumScenarios}
    \cup {Defect(j, l, 0, FALSE) :
              j \in 1..NumScenarios,
              l \in {0, 1, target_length_default - 1, target_length_default + 1}}
    \cup {Defect(j, target_length_default, b, FALSE) :
              j \in 1..NumScenarios, b \in {1, target_length_default}}
    \cup {Defect(j, target_length_default + 1, b, FALSE) :
              j \in 1..NumScenarios,
              b \in {target_length_default, target_length_default + 1}}
    \cup {Defect(j, target_length_default - 1, target_length_default - 1, FALSE) :
              j \in 1..NumScenarios}

\* A list of len elements: body, then last as the final element, with a
\* non-numeric element at position bad.
ListShape(len, body, last, bad) ==
    [i \in 1..len |-> IF i = bad THEN Str ELSE Num(IF i = len THEN last ELSE body)]

\* The value at position i of a response.
ValueAt(i, lasts, bodies, defect) ==
    LET j == IF i <= NumScenarios THEN i ELSE 1
    IN  IF defect.slot = i
        THEN IF defect.nonlist THEN NonList
             ELSE ListValue(ListShape(defect.len, bodies[j], lasts[j], defect.bad))
        ELSE ListValue(ListShape(target_length_default, bodies[j], lasts[j], 0))

\* A response whose text decodes to a dictionary.
DictResponse(keys, lasts, bodies, defect) ==
    [kind |-> "dict",
     items |-> [i \in 1..Len(keys) |->
                   [key |-> keys[i], value |-> ValueAt(i, lasts, bodies, defect)]]]

\* A request that fails (the exception leaves generate_climate_scenarios), a
\* text that does not parse, a text that decodes to something that is not a
\* dictionary.
ApiError == [kind |-> "api_error", items |-> <<>>]
Unparsable == [kind |-> "unparsable", items |-> <<>>]
NonDict == [kind |-> "nondict", items |-> <<>>]

\* The responses given to direct calls of generate_climate_scenarios: every
\* key layout with every profile of last values, and every defect with the
\* well-formed layouts.
Responses ==
    {ApiError, Unparsable, NonDict}
    \cup {DictResponse(k, l, <<3, 2, 1, 0>>, NoDefect) :
              k \in KeyLayouts, l \in LastProfiles}
    \cup {DictResponse(<<kBAU, kCEA, kER, kCI>>, l, b, NoDefect) :
              l \in LastProfiles, b \in BodyProfiles}
    \cup {DictResponse(k, l, b, d) :
              k \in { <<kBAU, kCEA, kER, kCI>>, <<kBAUlong, kCEA, kER, kCInumbered>> },
              l \in { <<6, 4, 2, 1>>, <<7, 4, 2, -1>> },
              b \in { <<3, 2, 1, 0>>, <<-2, 9, 3, 3>> },
              d \in Defects}

\* The responses explored across reruns of the script.
AppResponses ==
    {ApiError, Unparsable, NonDict,
     DictResponse(<<kBAUlower, kCEA, kER, kCI>>, <<6, 4, 2, 1>>, <<0, 0, 0, 0>>, NoDefect)}
    \cup {DictResponse(<<kBAU, kCEA, kER, kCI>>, l, b, d) :
              l \in { <<6, 4, 2, 1>>, <<5, 5, 3, 1>>, <<7, 4, 2, -1>> },
              b \in { <<0, 0, 0, 0>>, <<1, 0, 6, 0>> },
              d \in { NoDefect,
                      Defect(2, 0, 0, FALSE),
                      Defect(3, target_length_default + 1,
                             target_length_default + 1, FALSE) }}

\* The control parameters of lines 184-187; intervention_temp in tenths.
ControlParameters ==
    { [co2_price |-> 50, years_to_reduce |-> 30,
       intervention_temp |-> 15, intervention_duration |-> 20],
      [co2_price |-> 0, years_to_reduce |-> 0,
       intervention_temp |-> 10, intervention_duration |-> 0],
      [co2_price |-> 1000, years_to_reduce |-> 100,
       intervention_temp |-> 30, intervention_duration |-> 100] }

-----------------------------------------------------------------------------
(* The script, lines 9-17 and 171-203: one rerun per user interaction *)

SessionKeys ==
    {"scenarios", "co2_price", "years_to_reduce", "intervention_temp",
     "intervention_duration"}

\* The widgets' default values, shown before the first rerun stores them.
DefaultControls ==
    [co2_price |-> 50, years_to_reduce |-> 30,
     intervention_temp |-> 15, intervention_duration |-> 20]

NoCall == [fn |-> "none", done |-> TRUE]

Report(exc) == [exc |-> exc, arg |-> <<>>]

\* Mutant of pass_needed: only the button starts a pass.
pass_needed_button_only(btn, scenarios) == btn

\* Line 190: st.button("Generate Scenarios") or st.session_state.scenarios is None
pass_needed(btn, scenarios) == btn \/ scenarios = None

\* Line 200: "if st.session_state.scenarios": None and the empty dict are false.
truthy(scenarios) == scenarios # None /\ Len(scenarios[1]) > 0

AppInit ==
    /\ api_key \in BOOLEAN
    /\ session_state = [keys |-> {}, scenarios |-> None, controls |-> DefaultControls]
    /\ runs = 0
    /\ button = FALSE
    /\ pass_started = FALSE
    /\ returned = None
    /\ errors = <<>>
    /\ plotted = FALSE
    /\ markets = None

Init == AppInit /\ call = NoCall

\* Lines 12-14: without an API key the script reports and stops.
RerunStopped ==
    /\ ~api_key
    /\ runs < MaxReruns
    /\ runs' = runs + 1
    /\ errors' = << Report("No OpenAI API key found") >>
    /\ button' = FALSE
    /\ pass_started' = FALSE
    /\ returned' = None
    /\ plotted' = FALSE
    /\ markets' = None
    /\ UNCHANGED <<api_key, session_state, call>>

\* Lines 200-203, with s2 the session state after lines 179-198 and errs the
\* reports made so far.
show(s2, errs) ==
    /\ session_state' = s2
    /\ IF truthy(s2.scenarios)
       THEN /\ plotted' = TRUE
            /\ markets' = Some(update_plot(s2.scenarios[1], s2.controls.co2_price))
            /\ errors' = errs
       ELSE /\ plotted' = FALSE
            /\ markets' = None
            /\ errors' = Append(errs, Report("Failed to generate scenarios"))

\* Lines 179-203: a rerun with the button pressed or not (btn), the widgets
\* set to ctl, and the collaborator answering response if it is asked.
Rerun(btn, ctl, response) ==
    /\ api_key
    /\ runs < MaxReruns
    /\ runs' = runs + 1
    /\ button' = btn
    /\ LET s1 == [keys |-> SessionKeys,
                  scenarios |-> IF "scenarios" \in session_state.keys
                                THEN session_state.scenarios ELSE None,
                  controls |-> ctl]
           start == pass_needed(btn, s1.scenarios)
       IN  /\ pass_started' = start
           /\ IF ~start
              THEN /\ returned' = None
                   /\ show(s1, <<>>)
              ELSE \* g: the result of the call of line 192
                   \E g \in {generate_climate_scenarios(response)} :
                       IF g.exc # "none"
                       THEN \* the exception of line 50 ends the run
                            /\ session_state' = s1
                            /\ returned' = None
                            /\ errors' = << Report(g.exc) >>
                            /\ plotted' = FALSE
                            /\ markets' = None
                       ELSE /\ returned' = Some(g.val.ret)
                            /\ show([s1 EXCEPT !.scenarios = g.val.ret], g.val.errors)
    /\ UNCHANGED <<api_key, call>>

RerunAny ==
    \E btn \in BOOLEAN, ctl \in ControlParameters, response \in AppResponses :
        Rerun(btn, ctl, response)

Next == RerunStopped \/ RerunAny

Spec == Init /\ [][Next]_vars

-----------------------------------------------------------------------------
(* Direct calls of the functions, on inputs drawn from bounded sets *)

\* The series given to normalize_data: up to MaxLen elements.
RECURSIVE SeriesUpTo(_)
SeriesUpTo(n) ==
    IF n = 0 THEN { <<>> }
    ELSE LET shorter == SeriesUpTo(n - 1)
         IN  shorter \cup {Append(d, e) : d \in {x \in shorter : Len(x) = n - 1},
                                          e \in {Num(0), Num(7), Str}}

\* The series given to market_size: YearsNum values, a up to index switch, then b.
MarketSeries ==
    {[i \in 1..YearsNum |-> IF i <= switch THEN a ELSE b] :
        a \in {0, 1, 3, 6}, b \in {0, 1, 3, 6}, switch \in {1, 50}}

Prices == {0, 50, 1000}

NormalizeCalls ==
    {[fn |-> "normalize_data", done |-> FALSE, data |-> d, target_length |-> n,
      result |-> <<>>] : d \in SeriesUpTo(MaxLen), n \in 0..(MaxLen + 1)}

GenerateCalls ==
    {[fn |-> "generate_climate_scenarios", done |-> FALSE, response |-> r,
      result |-> <<>>] : r \in Responses}

MarketCalls ==
    {[fn |-> "market_size", done |-> FALSE, upper |-> u, lower |-> l,
      co2_price |-> p, result |-> 0] :
        u \in MarketSeries, l \in MarketSeries, p \in Prices}

CallInit ==
    /\ AppInit
    /\ api_key = TRUE
    /\ call \in NormalizeCalls \cup GenerateCalls \cup MarketCalls

AppUnchanged ==
    UNCHANGED <<api_key, session_state, runs, button, pass_started, returned,
                errors, plotted, markets>>

CallNormalize ==
    /\ call.fn = "normalize_data" /\ ~call.done
    /\ call' = [call EXCEPT !.done = TRUE,
                            !.result = normalize_data(call.data, call.target_length)]
    /\ AppUnchanged

CallGenerate ==
    /\ call.fn = "generate_climate_scenarios" /\ ~call.done
    /\ call' = [call EXCEPT !.done = TRUE,
                            !.result = generate_climate_scenarios(call.response)]
    /\ AppUnchanged

CallMarket ==
    /\ call.fn = "market_size" /\ ~call.done
    /\ call' = [call EXCEPT !.done = TRUE,
                            !.result = market_size(call.upper, call.lower, call.co2_price)]
    /\ AppUnchanged

CallNext == CallNormalize \/ CallGenerate \/ CallMarket

CallSpec == CallInit /\ [][CallNext]_vars

-----------------------------------------------------------------------------
(* Properties *)

\* A complete validated ScenarioSet: one series per canonical name, each of
\* 100 values in [0, 6], with strictly descending last values.
ValidScenarioSet(set) ==
    /\ Len(set) = Len(correct_order)
    /\ \A n \in 1..Len(set) :
          /\ Len(set[n]) = 100
          /\ \A i \in 1..Len(set[n]) : set[n][i] >= 0 /\ set[n][i] <= 6
    /\ \A n \in 1..(Len(set) - 1) : set[n][Len(set[n])] > set[n + 1][Len(set[n + 1])]

GenerateDone == call.fn = "generate_climate_scenarios" /\ call.done
NormalizeDone == call.fn = "normalize_data" /\ call.done
MarketDone == call.fn = "market_size" /\ call.done

\* The collaborator returned a payload (the request itself did not fail).
PayloadReturned == GenerateDone /\ call.response.kind # "api_error"

\* C1: for every payload the collaborator returns, generate_climate_scenarios
\* returns (raises nothing) either None or a set of the four canonical series,
\* each of exactly 100 values in [0, 6], with strictly descending last values.
C1_ReturnsNoneOrValidSet ==
    PayloadReturned =>
        /\ call.result.exc = "none"
        /\ \/ call.result.val.ret = None
           \/ ValidScenarioSet(call.result.val.ret[1])

\* C1 witness: a set is returned for a payload with a list longer than 100
\* and, among the first 100 values of its lists, values above 6 and below 0.
C1_Witness ==
    /\ PayloadReturned
    /\ call.result.exc = "none"
    /\ call.result.val.ret # None
    /\ \E i \in 1..Len(call.response.items) :
          Len(call.response.items[i].value.elems) > 100
    /\ \E i \in 1..Len(call.response.items), j \in 1..100 :
          call.response.items[i].value.elems[j].v > 6
    /\ \E i \in 1..Len(call.response.items), j \in 1..100 :
          call.response.items[i].value.elems[j].v < 0

\* C2: normalize_data never fails and returns exactly target_length
\* elements: the first target_length elements when the series is long
\* enough, else the series followed by copies of its last element.
C2_NormalizeTotal ==
    NormalizeDone =>
        LET data == call.data
            n == call.target_length
            out == call.result.val
        IN  /\ call.result.exc = "none"
            /\ Len(out) = n
            /\ \A i \in 1..n :
                  out[i] = IF i <= Len(data) THEN data[i] ELSE data[Len(data)]

\* The payload is a dictionary of four entries.
FourEntries ==
    /\ GenerateDone
    /\ call.response.kind = "dict"
    /\ Len(call.response.items) = 4

AllKeysStrings(items) == \A i \in 1..Len(items) : items[i].key.isstr

\* The canonical names that no key of the payload contains.
LackingNames(items) ==
    {n \in 1..Len(correct_order) :
        \A i \in 1..Len(items) : ~Contains(items[i].key.words, correct_order[n])}

\* The payload is structurally invalid: not a mapping, not exactly 4 keys, a
\* canonical name without a key, a value that is not a list, or a list with
\* a non-numeric element.
StructurallyInvalid(response) ==
    \/ response.kind \in {"unparsable", "nondict"}
    \/ /\ response.kind = "dict"
       /\ \/ Len(response.items) # 4
          \/ /\ AllKeysStrings(response.items)
             /\ LackingNames(response.items) # {}
          \/ \E i \in 1..Len(response.items) :
                \/ ~response.items[i].value.islist
                \/ \E j \in 1..Len(response.items[i].value.elems) :
                      ~response.items[i].value.elems[j].num

\* C3: a structurally invalid payload is rejected: nothing is raised, an
\* error is reported, None is returned; when the payload is a dictionary of
\* four string keys that lacks a canonical name, the error names it.
C3_InvalidPayloadRejected ==
    (PayloadReturned /\ StructurallyInvalid(call.response)) =>
        /\ call.result.exc = "none"
        /\ call.result.val.ret = None
        /\ Len(call.result.val.errors) = 1
        /\ (FourEntries /\ AllKeysStrings(call.response.items)
               /\ LackingNames(call.response.items) # {}) =>
              /\ call.result.val.errors[1].exc = "ValueError: Missing scenario"
              /\ \E n \in LackingNames(call.response.items) :
                    call.result.val.errors[1].arg = correct_order[n]

\* The four series after lines 66-78, when every iteration succeeded.
AllNormalized ==
    /\ FourEntries
    /\ \A n \in 1..Len(correct_order) :
          normalized_for(call.response.items, n).exc = "none"

NormalizedSeries == [n \in 1..Len(correct_order) |-> normalized_for(call.response.items, n).val]

\* The adjacent pairs (a, b) of canonical order with a.last <= b.last.
PairsOutOfOrder ==
    {n \in 1..3 : NormalizedSeries[n][100] <= NormalizedSeries[n + 1][100]}

\* C4 as claimed: a terminal-order violation is corrected in place and the
\* pass still returns a set, in which b.last < a.last.
C4_OrderViolationCorrected ==
    (AllNormalized /\ PairsOutOfOrder # {}) =>
        /\ call.result.exc = "none"
        /\ call.result.val.ret # None
        /\ ValidScenarioSet(call.result.val.ret[1])

\* C4 as amended: a terminal-order violation is fatal to the pass: nothing
\* is rescaled, an error naming the first scenario of the first pair out of
\* order is reported, and None is returned.
C4_OrderViolationFatal ==
    (AllNormalized /\ PairsOutOfOrder # {}) =>
        /\ call.result.exc = "none"
        /\ call.result.val.ret = None
        /\ call.result.val.errors =
              << [exc |-> "ValueError: should show more warming",
                  arg |-> correct_order[CHOOSE n \in PairsOutOfOrder :
                                           \A k \in PairsOutOfOrder : n <= k]] >>

\* C4 witness: all four series were normalized, two adjacent pairs are out
\* of order, and the call is over.
C4_Witness ==
    /\ AllNormalized
    /\ Cardinality(PairsOutOfOrder) >= 2
    /\ call.result.val.ret = None

\* str.lower() on the words that occur in keys.
LowerWord(w) ==
    CASE w = "Business" -> "business"
      [] w = "Usual" -> "usual"
      [] w = "Cut" -> "cut"
      [] w = "CUT" -> "cut"
      [] w = "Emissions" -> "emissions"
      [] w = "EMISSIONS" -> "emissions"
      [] w = "Aggressively" -> "aggressively"
      [] w = "AGGRESSIVELY" -> "aggressively"
      [] w = "Removal" -> "removal"
      [] w = "Climate" -> "climate"
      [] w = "Interventions" -> "interventions"
      [] w = "Notes" -> "notes"
      [] w = "(BAU)" -> "(bau)"
      [] OTHER -> w

Lower(words) == [i \in 1..Len(words) |-> LowerWord(words[i])]

\* Key k contains canonical name c under any letter casing.
ContainsAnyCase(k, c) == Contains(Lower(k), Lower(c))

\* C5: a key that contains a canonical name as a substring under any letter
\* casing is resolved to it: the name gets a matched key and is not reported
\* as missing.
C5_CaseInsensitiveMatch ==
    (FourEntries /\ AllKeysStrings(call.response.items)) =>
        \A n \in 1..Len(correct_order) :
            (\E i \in 1..4 :
                ContainsAnyCase(call.response.items[i].key.words, correct_order[n]))
            => /\ matched_keys(call.response)[n] # 0
               /\ \A e \in 1..Len(call.result.val.errors) :
                     ~(/\ call.result.val.errors[e].exc = "ValueError: Missing scenario"
                       /\ call.result.val.errors[e].arg = correct_order[n])

C6_MarketNonNegative ==
    MarketDone =>
        /\ call.result >= 0
        /\ (\A i \in 1..100 : call.upper[i] <= call.lower[i]) => call.result = 0

\* C6 witness: the upper series is nowhere above and somewhere below the
\* lower one, the price is positive, and the market size was computed.
C6_Witness ==
    /\ MarketDone
    /\ call.co2_price > 0
    /\ \A i \in 1..100 : call.upper[i] <= call.lower[i]
    /\ \E i \in 1..100 : call.upper[i] < call.lower[i]

\* The upper series is k above the lower one at every index.
UniformGap(k) == \A i \in 1..100 : call.upper[i] - call.lower[i] = k

\* C7 as claimed: with the upper series uniformly k > 0 above the lower one
\* over N = 100 points the market size is k * (N - 1) * price * 1e9 (unit
\* spacing); both sides are in units of 1e9 / MarketScale dollars.
C7_UnitSpacingMarket ==
    MarketDone =>
        \A k \in 1..6 :
            UniformGap(k) => call.result = k * (100 - 1) * call.co2_price * MarketScale

\* C7 as amended: the market size is k * 100 * price * 1e9: the integral is
\* taken over years = linspace(0, 100, 100), whose spacing is 100 / (N - 1).
C7_AxisSpacingMarket ==
    MarketDone =>
        \A k \in 1..6 :
            UniformGap(k) => call.result = k * 100 * call.co2_price * MarketScale

\* C7 witness: a uniform positive gap at a positive price.
C7_Witness ==
    /\ MarketDone
    /\ call.co2_price > 0
    /\ \E k \in 1..6 : UniformGap(k)
    /\ call.result > 0

\* C8: the stored scenarios are always None or a complete validated set;
\* update_plot runs only in a rerun that ends with such a set stored; a rerun
\* whose pass failed stores None and does not run update_plot.
C8_StoredNoneOrValid ==
    /\ \/ session_state.scenarios = None
       \/ ValidScenarioSet(session_state.scenarios[1])
    /\ plotted =>
          /\ session_state.scenarios # None
          /\ ValidScenarioSet(session_state.scenarios[1])
    /\ (pass_started /\ returned = Some(None)) =>
          /\ session_state.scenarios = None
          /\ ~plotted
    /\ (pass_started /\ returned = None) => ~plotted

\* C8 witness: a set was stored and shown, then a pass started by the button
\* failed: nothing is stored and nothing is shown.
C8_Witness ==
    /\ runs = 2
    /\ button
    /\ pass_started
    /\ returned = Some(None)
    /\ session_state.scenarios = None
    /\ ~plotted

\* C9: a rerun that reaches line 190 starts a generation pass if and only if
\* the button was pressed or no set is stored, and a rerun that starts no
\* pass leaves the stored set unchanged, whatever the control parameters.
C9_PassIffButtonOrNone ==
    [][(api_key /\ runs' = runs + 1) =>
          /\ pass_started' <=> (button' \/ session_state.scenarios = None)
          /\ ~pass_started' => session_state'.scenarios = session_state.scenarios
          /\ (~button' /\ session_state.scenarios # None) =>
                session_state'.scenarios = session_state.scenarios]_vars

\* C9 witness: the second rerun retried generation without a button press
\* (the first one stored nothing).
C9_Witness ==
    /\ runs = 2
    /\ ~button
    /\ pass_started
    /\ returned # None

=============================================================================
